---- MODULE Spec2Model ----
(***************************************************************************)
(* Model of the public data model and accessors of natspec_parser          *)
(* (src/src/lib.rs): the Tag classifier (From<&str>, From<String>,         *)
(* Display, len, unexpected_tag), DocumentationTag::param_name, the        *)
(* DocData accessors (tags, associated_element, auto_generated_title,      *)
(* title, is_documentation), AssociatedElement::name and the top-level     *)
(* driver CvlDoc::from_rope.                                               *)
(*                                                                         *)
(* A Rust String is a sequence of characters, each character a one-element *)
(* TLA+ string; characters outside ASCII are written by their code point   *)
(* ("U+00E9").  Option<T> is None / Some(v), Result<T, E> is Ok(v) /       *)
(* Err(e).  A variable that holds the value returned by a call is a slot:  *)
(* <<>> before the call, <<v>> after it returned v.                        *)
(***************************************************************************)
EXTENDS Integers, Sequences, FiniteSets

VARIABLES
    token,       \* slot: the tag token handed to the Tag classifier
    tag,         \* slot: the Tag under inspection (Tag::from(&str) or built directly)
    tagOwned,    \* slot: Tag::from(String) of the same token
    shown,       \* slot: tag.to_string()
    tagLen,      \* slot: tag.len()
    unexpected,  \* slot: tag.unexpected_tag()
    reTag,       \* slot: Tag::from(shown as &str)
    doc,         \* slot: the DocData value under inspection
    titleRes,    \* slot: doc.title()
    autoRes,     \* slot: doc.auto_generated_title()
    tagsRes,     \* slot: doc.tags()
    assocRes,    \* slot: doc.associated_element()
    isDocRes,    \* slot: doc.is_documentation()
    dtag,        \* slot: the DocumentationTag under inspection
    paramRes,    \* slot: dtag.param_name()
    parsed,      \* slot: what parser().parse_recovery(src) yielded for the rope
    docs         \* slot: CvlDoc::from_rope(rope)

tagVars == <<token, tag, tagOwned, shown, tagLen, unexpected, reTag>>
docVars == <<doc, titleRes, autoRes, tagsRes, assocRes, isDocRes>>
dtagVars == <<dtag, paramRes>>
ropeVars == <<parsed, docs>>
vars == <<token, tag, tagOwned, shown, tagLen, unexpected, reTag,
          doc, titleRes, autoRes, tagsRes, assocRes, isDocRes,
          dtag, paramRes, parsed, docs>>

----------------------------------------------------------------------------
(* Bounds of the explored inputs.                                          *)

MaxTokenLen == 3
MaxTags == 2
MaxDescLen == 3
MaxBuilders == 3

----------------------------------------------------------------------------
(* Option and Result.                                                      *)

None == [some |-> FALSE]
Some(v) == [some |-> TRUE, val |-> v]
Ok(v) == [ok |-> TRUE, val |-> v]
Err(e) == [ok |-> FALSE, err |-> e]

(* Result::ok(): Ok(v) becomes Some(v), the error is discarded.            *)
ResultOk(r) == IF r.ok THEN Some(r.val) ELSE None

(* Option::ok_or_else(f).                                                  *)
OkOrElse(o, e) == IF o.some THEN Ok(o.val) ELSE Err(e)

----------------------------------------------------------------------------
(* String literals of the source and of the inputs.                        *)

S_title == <<"t", "i", "t", "l", "e">>
S_notice == <<"n", "o", "t", "i", "c", "e">>
S_dev == <<"d", "e", "v">>
S_param == <<"p", "a", "r", "a", "m">>
S_return == <<"r", "e", "t", "u", "r", "n">>
S_formula == <<"f", "o", "r", "m", "u", "l", "a">>

S_Title == <<"T", "i", "t", "l", "e">>
S_params == <<"p", "a", "r", "a", "m", "s">>
S_weird == <<"w", "e", "i", "r", "d">>
S_Foo == <<"F", "o", "o">>
S_Bar == <<"B", "a", "r">>
S_myRule == <<"m", "y", "R", "u", "l", "e">>
S_block == <<"{", "}">>

(* All strings over alphabet of length at most n.                          *)
StringsUpTo(alphabet, n) == UNION {[1..k -> alphabet] : k \in 0..n}

(* str::len() is the length in bytes of the UTF-8 encoding.                *)
Utf8Len(c) == IF c \in {"U+00E9", "U+00A0", "U+0085"} THEN 2 ELSE 1

RECURSIVE ByteLen(_)
ByteLen(s) == IF s = <<>> THEN 0 ELSE Utf8Len(Head(s)) + ByteLen(Tail(s))

----------------------------------------------------------------------------
(* enum Tag.                                                               *)

Title == [kind |-> "Title"]
Notice == [kind |-> "Notice"]
Dev == [kind |-> "Dev"]
Param == [kind |-> "Param"]
Return == [kind |-> "Return"]
Formula == [kind |-> "Formula"]
Unexpected(s) == [kind |-> "Unexpected", s |-> s]

KnownTags == {Title, Notice, Dev, Param, Return, Formula}

(* impl From<&str> for Tag                                                 *)
StripPrefix(s) == IF s # <<>> /\ Head(s) = "@" THEN Some(Tail(s)) ELSE None

(* MatchStr with the keywords compared without regard to the case of the   *)
(* first letter.                                                           *)
MatchStrIgnoreCase(s) ==
    CASE s \in {S_title, S_Title} -> Title
      [] s = S_notice -> Notice
      [] s = S_dev -> Dev
      [] s = S_param -> Param
      [] s = S_return -> Return
      [] s = S_formula -> Formula
      [] OTHER -> Unexpected(s)

MatchStr(s) ==
    CASE s = S_title -> Title
      [] s = S_notice -> Notice
      [] s = S_dev -> Dev
      [] s = S_param -> Param
      [] s = S_return -> Return
      [] s = S_formula -> Formula
      [] OTHER -> Unexpected(s)

FromStr(s) ==
    LET trimmed == StripPrefix(s)
    IN  MatchStr(IF trimmed.some THEN trimmed.val ELSE s)

(* impl From<String> for Tag                                               *)
StartsWithAt(s) == s # <<>> /\ s[1] = "@"

Remove0(s) == SubSeq(s, 2, Len(s))

MatchString(s) ==
    CASE s = S_title -> Title
      [] s = S_notice -> Notice
      [] s = S_dev -> Dev
      [] s = S_param -> Param
      [] s = S_return -> Return
      [] s = S_formula -> Formula
      [] OTHER -> Unexpected(s)

(* FromString removing every leading marker instead of the first one.      *)
RECURSIVE StripAllMarkers(_)
StripAllMarkers(s) ==
    IF StartsWithAt(s) THEN StripAllMarkers(Remove0(s)) ELSE s

FromStringStripAll(s) == MatchString(StripAllMarkers(s))

FromString(s) == MatchString(IF StartsWithAt(s) THEN Remove0(s) ELSE s)

(* ToString with the display string of Return misspelt.                    *)
ToStringTypo(t) ==
    CASE t = Title -> S_title
      [] t = Notice -> S_notice
      [] t = Dev -> S_dev
      [] t = Param -> S_param
      [] t = Return -> <<"r", "e", "t", "u", "r", "n", "s">>
      [] t = Formula -> S_formula
      [] OTHER -> t.s

(* impl Display for Tag                                                    *)
ToString(t) ==
    CASE t = Title -> S_title
      [] t = Notice -> S_notice
      [] t = Dev -> S_dev
      [] t = Param -> S_param
      [] t = Return -> S_return
      [] t = Formula -> S_formula
      [] OTHER -> t.s

(* Tag::unexpected_tag                                                     *)
UnexpectedTag(t) == IF t.kind = "Unexpected" THEN Some(t.s) ELSE None

(* LenWithoutAmpersat counting the characters, not the bytes, of an        *)
(* unexpected tag.                                                         *)
LenWithoutAmpersatChars(t) ==
    CASE t = Dev -> 3
      [] t \in {Title, Param} -> 5
      [] t \in {Notice, Return} -> 6
      [] t = Formula -> 7
      [] OTHER -> Len(t.s)

(* Tag::len                                                                *)
LenWithoutAmpersat(t) ==
    CASE t = Dev -> 3
      [] t \in {Title, Param} -> 5
      [] t \in {Notice, Return} -> 6
      [] t = Formula -> 7
      [] OTHER -> ByteLen(t.s)

TagLen(t) == LenWithoutAmpersat(t) + 1

----------------------------------------------------------------------------
(* Inputs of the Tag classifier.                                           *)

Identifiers ==
    {S_title, S_notice, S_dev, S_param, S_return, S_formula,
     S_Title, S_params, S_weird}

TokenChars == {"@", "a", "U+00E9"}

Tokens ==
    StringsUpTo(TokenChars, MaxTokenLen)
        \cup Identifiers
        \cup {<<"@">> \o id : id \in Identifiers}
        \cup {<<"@", "@">> \o id : id \in Identifiers}

(* Tag values a caller can build directly from the public enum.            *)
Tags == KnownTags \cup {Unexpected(s) : s \in Tokens}

InitTag ==
    /\ \/ token \in {<<s>> : s \in Tokens} /\ tag = <<>>
       \/ token = <<>> /\ tag \in {<<t>> : t \in Tags}
    /\ tagOwned = <<>>
    /\ shown = <<>>
    /\ tagLen = <<>>
    /\ unexpected = <<>>
    /\ reTag = <<>>

IdleTag ==
    /\ token = <<>>
    /\ tag = <<>>
    /\ tagOwned = <<>>
    /\ shown = <<>>
    /\ tagLen = <<>>
    /\ unexpected = <<>>
    /\ reTag = <<>>

(* Tag::from(token.as_str())                                               *)
TagFromStr ==
    /\ token # <<>>
    /\ tag = <<>>
    /\ tag' = <<FromStr(token[1])>>
    /\ UNCHANGED <<token, tagOwned, shown, tagLen, unexpected, reTag>>
    /\ UNCHANGED <<docVars, dtagVars, ropeVars>>

(* Tag::from(token.to_string())                                            *)
TagFromString ==
    /\ token # <<>>
    /\ tagOwned = <<>>
    /\ tagOwned' = <<FromString(token[1])>>
    /\ UNCHANGED <<token, tag, shown, tagLen, unexpected, reTag>>
    /\ UNCHANGED <<docVars, dtagVars, ropeVars>>

(* tag.to_string()                                                         *)
TagToString ==
    /\ tag # <<>>
    /\ shown = <<>>
    /\ shown' = <<ToString(tag[1])>>
    /\ UNCHANGED <<token, tag, tagOwned, tagLen, unexpected, reTag>>
    /\ UNCHANGED <<docVars, dtagVars, ropeVars>>

(* tag.len()                                                               *)
TagLenCall ==
    /\ tag # <<>>
    /\ tagLen = <<>>
    /\ tagLen' = <<TagLen(tag[1])>>
    /\ UNCHANGED <<token, tag, tagOwned, shown, unexpected, reTag>>
    /\ UNCHANGED <<docVars, dtagVars, ropeVars>>

(* tag.unexpected_tag()                                                    *)
TagUnexpectedTag ==
    /\ tag # <<>>
    /\ unexpected = <<>>
    /\ unexpected' = <<UnexpectedTag(tag[1])>>
    /\ UNCHANGED <<token, tag, tagOwned, shown, tagLen, reTag>>
    /\ UNCHANGED <<docVars, dtagVars, ropeVars>>

(* Tag::from(tag.to_string().as_str()): the display string classified      *)
(* again.                                                                  *)
TagFromShown ==
    /\ shown # <<>>
    /\ reTag = <<>>
    /\ reTag' = <<FromStr(shown[1])>>
    /\ UNCHANGED <<token, tag, tagOwned, shown, tagLen, unexpected>>
    /\ UNCHANGED <<docVars, dtagVars, ropeVars>>

----------------------------------------------------------------------------
(* struct DocumentationTag.                                                *)

DocumentationTag(kind, description, range) ==
    [kind |-> kind, description |-> description, range |-> range]

(* char::is_ascii_whitespace: space, tab, line feed, form feed, carriage   *)
(* return.                                                                 *)
IsAsciiWhitespace(c) == c \in {" ", "\t", "\n", "\f", "\r"}

(* char::is_whitespace (the Unicode White_Space property), which           *)
(* str::trim_start uses: the ASCII ones and, among others, U+000B, U+0085  *)
(* and U+00A0.                                                             *)
IsWhitespace(c) == IsAsciiWhitespace(c) \/ c \in {"U+000B", "U+0085", "U+00A0"}

(* str::trim_start                                                         *)
RECURSIVE TrimStart(_)
TrimStart(s) ==
    IF s # <<>> /\ IsWhitespace(Head(s)) THEN TrimStart(Tail(s)) ELSE s

(* str::split_once(|c| c.is_ascii_whitespace()): the text before and after *)
(* the first matching character, None when no character matches.           *)
SplitOnce(s) ==
    LET hits == {i \in 1..Len(s) : IsAsciiWhitespace(s[i])}
    IN  IF hits = {} THEN None
        ELSE LET i == CHOOSE h \in hits : \A g \in hits : h <= g
             IN  Some(<<SubSeq(s, 1, i - 1), SubSeq(s, i + 1, Len(s))>>)

(* DocumentationTag::param_name                                            *)
ParamName(t) ==
    IF t.kind = Param
    THEN LET split == SplitOnce(TrimStart(t.description))
         IN  IF split.some THEN Some(split.val[1]) ELSE None
    ELSE None

DescChars == {"x", "y", " ", "\t", "U+00A0"}

ParamTagKinds == {Param, Notice, Unexpected(S_param)}

DocumentationTags ==
    {DocumentationTag(k, d, None) :
        k \in ParamTagKinds, d \in StringsUpTo(DescChars, MaxDescLen)}

InitDtag ==
    /\ dtag \in {<<t>> : t \in DocumentationTags}
    /\ paramRes = <<>>

IdleDtag ==
    /\ dtag = <<>>
    /\ paramRes = <<>>

(* dtag.param_name()                                                       *)
CallParamName ==
    /\ dtag # <<>>
    /\ paramRes = <<>>
    /\ paramRes' = <<ParamName(dtag[1])>>
    /\ UNCHANGED dtag
    /\ UNCHANGED <<tagVars, docVars, ropeVars>>

----------------------------------------------------------------------------
(* enum AssociatedElement.                                                 *)

Rule(name) ==
    [variant |-> "Rule", name |-> name, params |-> <<>>, filters |-> None,
     block |-> S_block]
Invariant(name) ==
    [variant |-> "Invariant", name |-> name, params |-> <<>>,
     invariant |-> S_Foo, filters |-> None, block |-> None]
Function(name) ==
    [variant |-> "Function", name |-> name, params |-> <<>>,
     returns |-> None, block |-> S_block]
Definition(name) ==
    [variant |-> "Definition", name |-> name, params |-> <<>>,
     returns |-> S_Foo, definition |-> S_Bar]
Ghost(name) ==
    [variant |-> "Ghost", name |-> name, ty_list |-> <<>>,
     returns |-> S_Foo, block |-> None]
GhostMapping(name) ==
    [variant |-> "GhostMapping", name |-> name, mapping |-> S_Bar,
     block |-> None]
Methods(block) == [variant |-> "Methods", block |-> block]

NamedVariants ==
    {"Rule", "Invariant", "Function", "Definition", "Ghost", "GhostMapping"}

(* Name with the Ghost arm left out of the match.                          *)
NameWithoutGhost(e) ==
    IF e.variant \in NamedVariants \ {"Ghost"} THEN Some(e.name) ELSE None

(* AssociatedElement::name                                                 *)
Name(e) == IF e.variant \in NamedVariants THEN Some(e.name) ELSE None

----------------------------------------------------------------------------
(* enum DocData.                                                           *)

FreeForm(text) == [variant |-> "FreeForm", text |-> text]
Documentation(tags, associated) ==
    [variant |-> "Documentation", tags |-> tags, associated |-> associated]

(* TagsOf yielding an empty slice for a free-form comment.                 *)
TagsOfAlways(d) ==
    IF d.variant = "Documentation" THEN Some(d.tags) ELSE Some(<<>>)

(* DocData::tags                                                           *)
TagsOf(d) == IF d.variant = "Documentation" THEN Some(d.tags) ELSE None

(* DocData::associated_element                                             *)
AssociatedElementOf(d) ==
    IF d.variant = "Documentation" THEN d.associated ELSE None

(* DocData::auto_generated_title                                           *)
AutoGeneratedTitle(d) ==
    IF d.variant = "Documentation"
    THEN LET associated ==
                 OkOrElse(d.associated,
                          "documentation has no associated syntactic element")
         IN  IF ~associated.ok THEN associated
             ELSE OkOrElse(Name(associated.val), "element has no name")
    ELSE Err("free form comments have no associated syntactic element")

(* FindTitle searching from the back (rfind): the last match.              *)
RECURSIVE FindLastTitle(_)
FindLastTitle(tags) ==
    IF tags = <<>> THEN None
    ELSE IF tags[Len(tags)].kind = Title THEN Some(tags[Len(tags)])
    ELSE FindLastTitle(SubSeq(tags, 1, Len(tags) - 1))

(* Iterator::find(|tag| tag.kind == Tag::Title): the first match.          *)
RECURSIVE FindTitle(_)
FindTitle(tags) ==
    IF tags = <<>> THEN None
    ELSE IF Head(tags).kind = Title THEN Some(Head(tags))
    ELSE FindTitle(Tail(tags))

(* TitleOf replacing a failed derivation by the empty title                *)
(* (unwrap_or_default) instead of dropping it.                             *)
TitleOfDefault(d) ==
    LET tags == TagsOf(d)
    IN  IF tags.some
        THEN LET title_tag == FindTitle(tags.val)
                 auto == AutoGeneratedTitle(d)
             IN  IF title_tag.some THEN Some(title_tag.val.description)
                 ELSE Some(IF auto.ok THEN auto.val ELSE <<>>)
        ELSE None

(* DocData::title                                                          *)
TitleOf(d) ==
    LET tags == TagsOf(d)
    IN  IF tags.some
        THEN LET title_tag == FindTitle(tags.val)
             IN  IF title_tag.some THEN Some(title_tag.val.description)
                 ELSE ResultOk(AutoGeneratedTitle(d))
        ELSE None

(* DocData::is_documentation                                               *)
IsDocumentation(d) == d.variant = "Documentation"

Names == {S_myRule, S_Foo}

AssociatedElements ==
    {Rule(n) : n \in Names} \cup {Invariant(n) : n \in Names}
        \cup {Function(n) : n \in Names} \cup {Definition(n) : n \in Names}
        \cup {Ghost(n) : n \in Names} \cup {GhostMapping(n) : n \in Names}
        \cup {Methods(S_block)}

DocTagKinds == {Title, Notice, Unexpected(S_title)}

DocTags == {DocumentationTag(k, d, None) : k \in DocTagKinds, d \in {S_Foo, S_Bar}}

DocDatas ==
    {FreeForm(t) : t \in {<<>>, S_Foo, <<"@">> \o S_title}}
        \cup {Documentation(ts, a) :
                ts \in StringsUpTo(DocTags, MaxTags),
                a \in {None} \cup {Some(e) : e \in AssociatedElements}}

InitDoc ==
    /\ doc \in {<<d>> : d \in DocDatas}
    /\ titleRes = <<>>
    /\ autoRes = <<>>
    /\ tagsRes = <<>>
    /\ assocRes = <<>>
    /\ isDocRes = <<>>

IdleDoc ==
    /\ doc = <<>>
    /\ titleRes = <<>>
    /\ autoRes = <<>>
    /\ tagsRes = <<>>
    /\ assocRes = <<>>
    /\ isDocRes = <<>>

(* doc.title()                                                             *)
CallTitle ==
    /\ doc # <<>>
    /\ titleRes = <<>>
    /\ titleRes' = <<TitleOf(doc[1])>>
    /\ UNCHANGED <<doc, autoRes, tagsRes, assocRes, isDocRes>>
    /\ UNCHANGED <<tagVars, dtagVars, ropeVars>>

(* doc.auto_generated_title()                                              *)
CallAutoGeneratedTitle ==
    /\ doc # <<>>
    /\ autoRes = <<>>
    /\ autoRes' = <<AutoGeneratedTitle(doc[1])>>
    /\ UNCHANGED <<doc, titleRes, tagsRes, assocRes, isDocRes>>
    /\ UNCHANGED <<tagVars, dtagVars, ropeVars>>

(* doc.tags()                                                              *)
CallTags ==
    /\ doc # <<>>
    /\ tagsRes = <<>>
    /\ tagsRes' = <<TagsOf(doc[1])>>
    /\ UNCHANGED <<doc, titleRes, autoRes, assocRes, isDocRes>>
    /\ UNCHANGED <<tagVars, dtagVars, ropeVars>>

(* doc.associated_element()                                                *)
CallAssociatedElement ==
    /\ doc # <<>>
    /\ assocRes = <<>>
    /\ assocRes' = <<AssociatedElementOf(doc[1])>>
    /\ UNCHANGED <<doc, titleRes, autoRes, tagsRes, isDocRes>>
    /\ UNCHANGED <<tagVars, dtagVars, ropeVars>>

(* doc.is_documentation()                                                  *)
CallIsDocumentation ==
    /\ doc # <<>>
    /\ isDocRes = <<>>
    /\ isDocRes' = <<IsDocumentation(doc[1])>>
    /\ UNCHANGED <<doc, titleRes, autoRes, tagsRes, assocRes>>
    /\ UNCHANGED <<tagVars, dtagVars, ropeVars>>

----------------------------------------------------------------------------
(* struct CvlDoc and CvlDoc::from_rope.                                    *)

CvlDoc(raw, range, data) == [raw |-> raw, range |-> range, data |-> data]

(* Range { start: Position { line, character }, end: Position { .. } }     *)
Range(sl, sc, el, ec) ==
    [start |-> [line |-> sl, character |-> sc],
     end |-> [line |-> el, character |-> ec]]

CvlDocs ==
    {CvlDoc(S_Foo, Range(0, 0, 0, 3), FreeForm(S_Foo)),
     CvlDoc(S_Bar, Range(1, 0, 1, 3), Documentation(<<>>, None))}

(* A builder of the parse module, as from_rope sees it: the value its      *)
(* build(converter, rope) returns.                                         *)
Builders ==
    {[built |-> Ok(d)] : d \in CvlDocs}
        \cup {[built |-> Err("span out of bounds")]}

Build(builder) == builder.built

(* Option::unwrap_or_default on Option<Vec<_>>                             *)
UnwrapOrDefault(o) == IF o.some THEN o.val ELSE <<>>

(* FilterMapBuild stopping at the first builder whose build fails          *)
(* (map_while).                                                            *)
RECURSIVE MapWhileBuild(_)
MapWhileBuild(builders) ==
    IF builders = <<>> THEN <<>>
    ELSE LET built == ResultOk(Build(Head(builders)))
         IN  IF built.some THEN <<built.val>> \o MapWhileBuild(Tail(builders))
             ELSE <<>>

(* .into_iter().filter_map(|builder| builder.build(..).ok()).collect()     *)
RECURSIVE FilterMapBuild(_)
FilterMapBuild(builders) ==
    IF builders = <<>> THEN <<>>
    ELSE LET built == ResultOk(Build(Head(builders)))
         IN  (IF built.some THEN <<built.val>> ELSE <<>>)
                 \o FilterMapBuild(Tail(builders))

(* CvlDoc::from_rope, given what the parser recovered from the rope.       *)
FromRopeOf(parse) == FilterMapBuild(UnwrapOrDefault(parse))

ParseResults ==
    {None} \cup {Some(bs) : bs \in StringsUpTo(Builders, MaxBuilders)}

InitRope ==
    /\ parsed \in {<<p>> : p \in ParseResults}
    /\ docs = <<>>

IdleRope ==
    /\ parsed = <<>>
    /\ docs = <<>>

(* CvlDoc::from_rope(rope)                                                 *)
FromRope ==
    /\ parsed # <<>>
    /\ docs = <<>>
    /\ docs' = <<FromRopeOf(parsed[1])>>
    /\ UNCHANGED parsed
    /\ UNCHANGED <<tagVars, docVars, dtagVars>>

----------------------------------------------------------------------------
(* The library is stateless: a behaviour fixes one input of one component  *)
(* and then calls that component's operations in any order.                *)

Init ==
    \/ InitTag /\ IdleDoc /\ IdleDtag /\ IdleRope
    \/ IdleTag /\ InitDoc /\ IdleDtag /\ IdleRope
    \/ IdleTag /\ IdleDoc /\ InitDtag /\ IdleRope
    \/ IdleTag /\ IdleDoc /\ IdleDtag /\ InitRope

Next ==
    \/ TagFromStr
    \/ TagFromString
    \/ TagToString
    \/ TagLenCall
    \/ TagUnexpectedTag
    \/ TagFromShown
    \/ CallParamName
    \/ CallTitle
    \/ CallAutoGeneratedTitle
    \/ CallTags
    \/ CallAssociatedElement
    \/ CallIsDocumentation
    \/ FromRope

Spec == Init /\ [][Next]_vars

----------------------------------------------------------------------------
(* Properties.                                                             *)

(* C1: when a Documentation value has at least one tag of kind Title,      *)
(* title() returns the description of the first Title tag in sequence      *)
(* order, whatever the associated element is.                              *)
C1_ExplicitTitleIsFirstTitleTag ==
    (doc # <<>> /\ titleRes # <<>> /\ doc[1].variant = "Documentation") =>
        LET tags == doc[1].tags
            titles == {i \in 1..Len(tags) : tags[i].kind = [kind |-> "Title"]}
        IN  titles # {} =>
                \E i \in titles :
                    /\ \A j \in titles : i <= j
                    /\ titleRes[1] = [some |-> TRUE, val |-> tags[i].description]

(* Two Title tags with different descriptions and an element named         *)
(* differently from both: title() returned the first description.          *)
C1_Witness ==
    /\ doc # <<>>
    /\ titleRes # <<>>
    /\ doc[1].variant = "Documentation"
    /\ Len(doc[1].tags) = 2
    /\ doc[1].tags[1].kind = Title
    /\ doc[1].tags[2].kind = Title
    /\ doc[1].tags[1].description # doc[1].tags[2].description
    /\ doc[1].associated = Some(Rule(S_myRule))
    /\ titleRes[1] = Some(doc[1].tags[1].description)

(* C2: with no Title tag and an associated Rule, Invariant, Function,      *)
(* Definition, Ghost or GhostMapping, title() and auto_generated_title()   *)
(* both yield that element's name.                                         *)
C2_AutoTitleIsElementName ==
    (/\ doc # <<>>
     /\ doc[1].variant = "Documentation"
     /\ \A i \in 1..Len(doc[1].tags) : doc[1].tags[i].kind # [kind |-> "Title"]
     /\ doc[1].associated.some
     /\ doc[1].associated.val.variant \in
            {"Rule", "Invariant", "Function", "Definition", "Ghost",
             "GhostMapping"}) =>
        /\ titleRes # <<>> =>
               titleRes[1] = [some |-> TRUE, val |-> doc[1].associated.val.name]
        /\ autoRes # <<>> =>
               autoRes[1] = [ok |-> TRUE, val |-> doc[1].associated.val.name]

(* A Ghost documented by tags none of which is a Title: both accessors     *)
(* returned the ghost's name.                                              *)
C2_Witness ==
    /\ doc # <<>>
    /\ titleRes # <<>>
    /\ autoRes # <<>>
    /\ doc[1].variant = "Documentation"
    /\ doc[1].tags = <<DocumentationTag(Notice, S_Foo, None),
                       DocumentationTag(Unexpected(S_title), S_Bar, None)>>
    /\ doc[1].associated = Some(Ghost(S_myRule))
    /\ titleRes[1] = Some(S_myRule)
    /\ autoRes[1] = Ok(S_myRule)

(* C3: for a FreeForm value is_documentation() is false and title(),       *)
(* tags() and associated_element() yield no value; for a Documentation     *)
(* value is_documentation() is true and tags() yields its tag sequence.    *)
C3_FreeFormCarriesNothing ==
    doc # <<>> =>
        /\ doc[1].variant = "FreeForm" =>
               /\ isDocRes # <<>> => isDocRes[1] = FALSE
               /\ titleRes # <<>> => titleRes[1] = [some |-> FALSE]
               /\ tagsRes # <<>> => tagsRes[1] = [some |-> FALSE]
               /\ assocRes # <<>> => assocRes[1] = [some |-> FALSE]
        /\ doc[1].variant = "Documentation" =>
               /\ isDocRes # <<>> => isDocRes[1] = TRUE
               /\ tagsRes # <<>> =>
                      tagsRes[1] = [some |-> TRUE, val |-> doc[1].tags]

(* A free-form comment whose text looks like a tag, all four accessors     *)
(* called.                                                                 *)
C3_Witness ==
    /\ doc = <<FreeForm(<<"@">> \o S_title)>>
    /\ isDocRes = <<FALSE>>
    /\ titleRes = <<None>>
    /\ tagsRes = <<None>>
    /\ assocRes = <<None>>

(* C4 as stated: for every tag token s, classifying the display string of  *)
(* Tag::from(s) yields a Tag equal to Tag::from(s).                        *)
C4_RoundTripEveryToken ==
    (token # <<>> /\ tag # <<>> /\ reTag # <<>>) => reTag[1] = tag[1]

(* C4 amended: the round trip holds for every tag token with at most one   *)
(* leading '@' (no marker, one marker, the empty identifier).              *)
C4_RoundTripSingleMarker ==
    (/\ token # <<>>
     /\ tag # <<>>
     /\ reTag # <<>>
     /\ ~(Len(token[1]) >= 2 /\ token[1][1] = "@" /\ token[1][2] = "@")) =>
        reTag[1] = tag[1]

(* "@return" was classified as Return, displayed and classified again.     *)
C4_Witness ==
    /\ token = <<<<"@">> \o S_return>>
    /\ tag = <<Return>>
    /\ shown # <<>>
    /\ reTag = <<Return>>

(* C5: for a Param tag whose description has a non-whitespace character,   *)
(* param_name() returns the first whitespace-delimited token of the        *)
(* description (also when that token is the whole description or follows   *)
(* leading whitespace); for any other kind it returns no value.            *)
C5_ParamNameIsFirstToken ==
    (dtag # <<>> /\ paramRes # <<>>) =>
        LET d == dtag[1].description
            solid == {i \in 1..Len(d) : ~IsWhitespace(d[i])}
        IN  /\ (dtag[1].kind = [kind |-> "Param"] /\ solid # {}) =>
                   \E first \in solid :
                       /\ \A i \in solid : first <= i
                       /\ \E last \in first..Len(d) :
                              /\ \A i \in first..last : i \in solid
                              /\ last + 1 \in 1..Len(d) => last + 1 \notin solid
                              /\ paramRes[1] =
                                     [some |-> TRUE,
                                      val |-> SubSeq(d, first, last)]
            /\ dtag[1].kind # [kind |-> "Param"] =>
                   paramRes[1] = [some |-> FALSE]

(* C6: the classifier strips the '@' marker and maps exactly title,        *)
(* notice, dev, param, return, formula to their kinds; any other           *)
(* identifier id yields Unexpected(id), whose display string and           *)
(* unexpected_tag() reproduce id; unexpected_tag() yields no value for the *)
(* six known kinds.                                                        *)
C6_ClassifierMapsExactlySixIdentifiers ==
    (token # <<>> /\ tag # <<>>) =>
        LET s == token[1]
            id == IF Len(s) >= 1 /\ s[1] = "@" THEN SubSeq(s, 2, Len(s)) ELSE s
            known == {S_title, S_notice, S_dev, S_param, S_return, S_formula}
        IN  /\ id = S_title => tag[1] = [kind |-> "Title"]
            /\ id = S_notice => tag[1] = [kind |-> "Notice"]
            /\ id = S_dev => tag[1] = [kind |-> "Dev"]
            /\ id = S_param => tag[1] = [kind |-> "Param"]
            /\ id = S_return => tag[1] = [kind |-> "Return"]
            /\ id = S_formula => tag[1] = [kind |-> "Formula"]
            /\ id \in known =>
                   (unexpected # <<>> => unexpected[1] = [some |-> FALSE])
            /\ id \notin known =>
                   /\ tag[1] = [kind |-> "Unexpected", s |-> id]
                   /\ shown # <<>> => shown[1] = id
                   /\ unexpected # <<>> =>
                          unexpected[1] = [some |-> TRUE, val |-> id]

(* "@Title" was classified as Unexpected("Title"), displayed and asked for *)
(* its unexpected tag.                                                     *)
C6_Witness ==
    /\ token = <<<<"@">> \o S_Title>>
    /\ tag = <<Unexpected(S_Title)>>
    /\ shown = <<S_Title>>
    /\ unexpected = <<Some(S_Title)>>

(* C7: from_rope yields the empty sequence when the parser yields no       *)
(* builder list, and otherwise exactly the records of the builders whose   *)
(* build succeeds, in their original order.                                *)
C7_FromRopeKeepsSuccessfulBuildsInOrder ==
    (parsed # <<>> /\ docs # <<>>) =>
        LET bs == IF parsed[1].some THEN parsed[1].val ELSE <<>>
            good == {i \in 1..Len(bs) : bs[i].built.ok}
            rank(i) == Cardinality({j \in good : j <= i})
        IN  /\ Len(docs[1]) = Cardinality(good)
            /\ \A i \in good : docs[1][rank(i)] = bs[i].built.val
            /\ ~parsed[1].some => docs[1] = <<>>

(* Three builders, the middle one failing to build, the outer ones         *)
(* building different records: both records returned, in order.            *)
C7_Witness ==
    /\ parsed # <<>>
    /\ docs # <<>>
    /\ parsed[1].some
    /\ Len(parsed[1].val) = 3
    /\ parsed[1].val[1].built.ok
    /\ ~parsed[1].val[2].built.ok
    /\ parsed[1].val[3].built.ok
    /\ parsed[1].val[1] # parsed[1].val[3]
    /\ docs[1] = <<parsed[1].val[1].built.val, parsed[1].val[3].built.val>>

(* C8: title() yields no value exactly when the data is FreeForm, or is    *)
(* Documentation with no Title tag and no associated element or a Methods  *)
(* element; title() yields an Option, never the error;                     *)
(* auto_generated_title() fails exactly when the data is FreeForm, has no  *)
(* associated element or a Methods element, whatever the tags are.         *)
C8_TitleAbsentExactlyWhenUnderivable ==
    doc # <<>> =>
        LET d == doc[1]
            isDoc == d.variant = "Documentation"
            hasTitle ==
                isDoc /\ \E i \in 1..Len(d.tags) : d.tags[i].kind = [kind |-> "Title"]
            nameless ==
                ~isDoc \/ ~d.associated.some \/ d.associated.val.variant = "Methods"
        IN  /\ titleRes # <<>> =>
                   /\ DOMAIN titleRes[1] \in {{"some"}, {"some", "val"}}
                   /\ ~titleRes[1].some <=> (~isDoc \/ (~hasTitle /\ nameless))
            /\ autoRes # <<>> =>
                   /\ ~autoRes[1].ok <=> nameless
                   /\ autoRes[1].ok => autoRes[1].val = d.associated.val.name

(* A methods block documented without a Title tag: the derivation failed   *)
(* and title() returned no value.                                          *)
C8_Witness ==
    /\ doc # <<>>
    /\ doc[1].variant = "Documentation"
    /\ doc[1].tags = <<DocumentationTag(Notice, S_Foo, None)>>
    /\ doc[1].associated = Some(Methods(S_block))
    /\ titleRes = <<None>>
    /\ autoRes = <<Err("element has no name")>>

(* C9: for every Tag value, len() is one (the '@' marker) plus the byte    *)
(* length of the tag's display string.                                     *)
C9_LenIsMarkerPlusDisplayBytes ==
    (tag # <<>> /\ tagLen # <<>> /\ shown # <<>>) =>
        tagLen[1] = 1 + ByteLen(shown[1])

(* An unexpected tag holding a two-byte character, measured and displayed. *)
C9_Witness ==
    /\ tag = <<Unexpected(<<"a", "U+00E9">>)>>
    /\ shown = <<<<"a", "U+00E9">>>>
    /\ tagLen = <<4>>

(* C10: Tag::from(&str) and Tag::from(String) produce equal values, each   *)
(* stripping at most one leading '@': a token with two leading markers     *)
(* yields an Unexpected value whose text still starts with '@'.            *)
C10_BothFromAgree ==
    token # <<>> =>
        LET twoMarkers ==
                Len(token[1]) >= 2 /\ token[1][1] = "@" /\ token[1][2] = "@"
            keepsMarker(t) ==
                t.kind = "Unexpected" /\ t.s = SubSeq(token[1], 2, Len(token[1]))
        IN  /\ (tag # <<>> /\ tagOwned # <<>>) => tag[1] = tagOwned[1]
            /\ (twoMarkers /\ tag # <<>>) => keepsMarker(tag[1])
            /\ (twoMarkers /\ tagOwned # <<>>) => keepsMarker(tagOwned[1])

(* "@@title" classified through both entry points.                         *)
C10_Witness ==
    /\ token = <<<<"@", "@">> \o S_title>>
    /\ tag = <<Unexpected(<<"@">> \o S_title)>>
    /\ tagOwned = <<Unexpected(<<"@">> \o S_title)>>

====
